---- MODULE Spec2Model ----
(***************************************************************************)
(* Model of mtsIntuitiveResearchKitMTM (sawIntuitiveResearchKit): the roll *)
(* calibration state machine CALIBRATING_ROLL .. READY and the callbacks   *)
(* registered for it in Init(), the inverse kinematics with its roll       *)
(* correction, and the orientation lock of the effort mode.                *)
(*                                                                         *)
(* Units.  Angles are integers in degrees (cmnPI_180 = 1, cmnPI = 180);    *)
(* times are integers in milliseconds (cmn_ms = 1, cmn_s = 1000).          *)
(*                                                                         *)
(* Every callback of the source is an operator from a record of the        *)
(* component's state to the record after the callback; a step of the model *)
(* is one invocation of a callback by the state machine driver.  A run     *)
(* callback begins a new cycle: GetRobotData advances the state table tic  *)
(* and samples the measured joint positions.  mtsStateMachine calls the    *)
(* enter callback of a state from inside SetCurrentState, so an enter      *)
(* callback is part of the step that changes the state.                    *)
(***************************************************************************)
EXTENDS Integers, Sequences, FiniteSets

VARIABLES
    mArmState,                     \* mArmState.CurrentState()
    desiredState,                  \* mArmState.DesiredState()
    m_simulated,                   \* configuration flag
    mAllEncodersBiased,            \* absolute encoders present
    mHomedOnce,
    currentTime,                   \* StateTable.GetTic() of the current cycle
    m_measured_js_pid,             \* measured joint positions, this cycle
    m_setpoint_js_pid,             \* PID setpoint as read back by the arm
    JointSet,                      \* trajectory position handed to the PID
    JointVelocitySet,
    Goal,                          \* mJointTrajectory.Goal
    GoalVelocity,                  \* mJointTrajectory.GoalVelocity
    EndTime,                       \* mJointTrajectory.EndTime, 0 = not computed
    mHomingTimer,
    mHomingCalibrateRollLower,
    mHomingRollEncoderReset,
    DefaultTrackingErrorTolerance, \* PID.DefaultTrackingErrorTolerance
    PID,                           \* servo layer: what the arm last asked of it
    encoderResets,                 \* RobotIO.ResetSingleEncoder(roll) calls so far
    \* observation of the last step
    lastCallback,                  \* callback the driver invoked
    calls,                         \* outward calls made by it, in order
    trajectoryResult,              \* Reflexxes.ResultValue() of this cycle
    trackingError,                 \* local trackingError of RunCalibratingRoll
    \* history
    trace,                         \* states entered since ARM_HOMED
    homedAtEntry,                  \* mHomedOnce when ARM_HOMED was entered
    homingRuns,                    \* times ARM_HOMED was entered
    rollDisables,                  \* PID.EnableJoints calls with roll off
    tServoOff,                     \* tic of the last of these
    tReset,                        \* tic of the last ResetSingleEncoder
    resetsThisVisit,               \* ResetSingleEncoder calls since the last
                                   \* entry into RESETTING_ROLL_ENCODER
    timerArmedIn,                  \* state whose run callback last set mHomingTimer
                                   \* from a trajectory duration
    cycles,                        \* cycles run so far
    \* kinematics
    mKinematicType,                \* MTM_ITERATIVE or MTM_CLOSED
    m_measured_js_kin,             \* measured positions of the kinematic joints
    jointSet,                      \* the caller's vector, argument of the last
                                   \* InverseKinematics call
    ikResult,                      \* what that call returned
    ikSeed,                        \* the vector as it was passed in
    ikRaw,                         \* roll of the solver's own solution, if any
    ikPrev,                        \* raw and returned roll of the call of
                                   \* InverseKinematics just before this one,
                                   \* if there was one and it succeeded
    \* effort control
    m_effort_orientation_locked,
    mEffortOrientation,            \* locked orientation, base-relative (an
                                   \* angle about one axis)
    mEffortOrientationJoint,       \* joint positions stored by LockOrientation
    mWrenchType,                   \* WRENCH_SPATIAL, WRENCH_BODY or undefined
    m_measured_js_kin_velocity,    \* m_measured_js_kin.Velocity()
    effortPreload,                 \* the two vectors the effort loop hands
    wrenchPreload,                 \* to ControlEffortCartesianPreload
    GripperClosed,
    StateGripper,                  \* StateGripper.Position()[0], in tenths
    gripperSamples,                \* gripper positions read so far
    gripperEvents,                 \* gripper events sent so far, each with the
    m_measured_js_velocity         \* m_measured_js_pid.Velocity()

vars == <<mArmState, desiredState, m_simulated, mAllEncodersBiased, mHomedOnce,
          currentTime, m_measured_js_pid, m_setpoint_js_pid, JointSet,
          JointVelocitySet, Goal, GoalVelocity, EndTime, mHomingTimer,
          mHomingCalibrateRollLower, mHomingRollEncoderReset,
          DefaultTrackingErrorTolerance, PID, encoderResets, lastCallback,
          calls, trajectoryResult, trackingError, trace, homedAtEntry,
          homingRuns, rollDisables, tServoOff, tReset, resetsThisVisit,
          timerArmedIn, cycles, mKinematicType, m_measured_js_kin, jointSet,
          ikResult, ikSeed, ikRaw, ikPrev, m_effort_orientation_locked,
          mEffortOrientation, mEffortOrientationJoint,
          mWrenchType,
          m_measured_js_kin_velocity,
          effortPreload,
          wrenchPreload,
          GripperClosed,
          StateGripper,
          gripperSamples,
          gripperEvents,
          m_measured_js_velocity>>

---------------------------------------------------------------------------
\* Bounds of the model.

MaxTime == 2034
MaxCycles == 7
MaxHomingRuns == 2

\* Inputs of a cycle, for the first homing of the process.
TimeSteps == {5, 2000}                \* tic increments between cycles, ms
Durations == {5}                      \* Reflexxes.Duration(), ms
RollMeasured == {-89, 385, 386}       \* measured roll, degrees
RollGrid == {-270, -269, 200}         \* trajectory positions of the roll
RollVelocities == {360}               \* trajectory velocity of a moving roll
OtherDeviations == {3}                \* a non-roll joint off its goal, degrees
DeviatingJoints == {2}
Results == {"WORKING", "FINAL_STATE_REACHED", "ERROR"}

\* Inputs of a cycle, for repeated homing.
RehomingTimeSteps == {10}
RehomingRollMeasured == {-89, 386}

---------------------------------------------------------------------------
\* Program constants.

cmnPI == 180
cmn_s == 1000
cmn_ms == 1
NumberOfJoints == 7
JNT_WRIST_ROLL == 6

Joints == 0 .. (NumberOfJoints - 1)
mFallbackState == "UNINITIALIZED"

maxTrackingError == 1 * cmnPI
maxRollRange == 6 * cmnPI + maxTrackingError
extraTime == 2 * cmn_s
timeToWait == 10 * cmn_ms

Abs(x) == IF x < 0 THEN -x ELSE x
SetAll(v) == [j \in Joints |-> v]

\* mJointTrajectory.GoalTolerance as set by Init
GoalTolerance == [j \in Joints |-> IF j = JNT_WRIST_ROLL THEN 6 ELSE 3]

\* PID.DefaultTrackingErrorTolerance as set by Init: 10 degrees, 30 for the
\* last three joints (Ref(3, 4): three elements from index 4)
InitTrackingErrorTolerance == [j \in Joints |-> IF j >= 4 THEN 30 ELSE 10]

RehomingMeasuredSet ==
    { [SetAll(0) EXCEPT ![JNT_WRIST_ROLL] = r] : r \in RehomingRollMeasured }

MeasuredSet ==
    { [SetAll(0) EXCEPT ![JNT_WRIST_ROLL] = r] : r \in RollMeasured }
    \cup UNION { { [SetAll(0) EXCEPT ![JNT_WRIST_ROLL] = r, ![j] = e] :
                       r \in RollMeasured, j \in DeviatingJoints } :
                   e \in OtherDeviations }

---------------------------------------------------------------------------
\* The component's state as one record, and back.

Cur ==
    [ mArmState |-> mArmState, desiredState |-> desiredState,
      m_simulated |-> m_simulated, mAllEncodersBiased |-> mAllEncodersBiased,
      mHomedOnce |-> mHomedOnce, currentTime |-> currentTime,
      m_measured_js_pid |-> m_measured_js_pid,
      m_setpoint_js_pid |-> m_setpoint_js_pid,
      JointSet |-> JointSet, JointVelocitySet |-> JointVelocitySet,
      Goal |-> Goal, GoalVelocity |-> GoalVelocity, EndTime |-> EndTime,
      mHomingTimer |-> mHomingTimer,
      mHomingCalibrateRollLower |-> mHomingCalibrateRollLower,
      mHomingRollEncoderReset |-> mHomingRollEncoderReset,
      DefaultTrackingErrorTolerance |-> DefaultTrackingErrorTolerance,
      PID |-> PID, encoderResets |-> encoderResets,
      lastCallback |-> lastCallback, calls |-> calls,
      trajectoryResult |-> trajectoryResult, trackingError |-> trackingError,
      trace |-> trace, homedAtEntry |-> homedAtEntry,
      homingRuns |-> homingRuns, rollDisables |-> rollDisables,
      tServoOff |-> tServoOff, tReset |-> tReset,
      resetsThisVisit |-> resetsThisVisit, timerArmedIn |-> timerArmedIn,
      cycles |-> cycles,
      mKinematicType |-> mKinematicType,
      m_measured_js_kin |-> m_measured_js_kin,
      jointSet |-> jointSet, ikResult |-> ikResult, ikSeed |-> ikSeed,
      ikRaw |-> ikRaw, ikPrev |-> ikPrev,
      m_effort_orientation_locked |-> m_effort_orientation_locked,
      mEffortOrientation |-> mEffortOrientation,
      mEffortOrientationJoint |-> mEffortOrientationJoint,
      mWrenchType |-> mWrenchType,
      m_measured_js_kin_velocity |-> m_measured_js_kin_velocity,
      effortPreload |-> effortPreload,
      wrenchPreload |-> wrenchPreload,
      GripperClosed |-> GripperClosed,
      StateGripper |-> StateGripper,
      gripperSamples |-> gripperSamples,
      gripperEvents |-> gripperEvents,
      m_measured_js_velocity |-> m_measured_js_velocity ]

Commit(s) ==
    /\ mArmState' = s.mArmState
    /\ desiredState' = s.desiredState
    /\ m_simulated' = s.m_simulated
    /\ mAllEncodersBiased' = s.mAllEncodersBiased
    /\ mHomedOnce' = s.mHomedOnce
    /\ currentTime' = s.currentTime
    /\ m_measured_js_pid' = s.m_measured_js_pid
    /\ m_setpoint_js_pid' = s.m_setpoint_js_pid
    /\ JointSet' = s.JointSet
    /\ JointVelocitySet' = s.JointVelocitySet
    /\ Goal' = s.Goal
    /\ GoalVelocity' = s.GoalVelocity
    /\ EndTime' = s.EndTime
    /\ mHomingTimer' = s.mHomingTimer
    /\ mHomingCalibrateRollLower' = s.mHomingCalibrateRollLower
    /\ mHomingRollEncoderReset' = s.mHomingRollEncoderReset
    /\ DefaultTrackingErrorTolerance' = s.DefaultTrackingErrorTolerance
    /\ PID' = s.PID
    /\ encoderResets' = s.encoderResets
    /\ lastCallback' = s.lastCallback
    /\ calls' = s.calls
    /\ trajectoryResult' = s.trajectoryResult
    /\ trackingError' = s.trackingError
    /\ trace' = s.trace
    /\ homedAtEntry' = s.homedAtEntry
    /\ homingRuns' = s.homingRuns
    /\ rollDisables' = s.rollDisables
    /\ tServoOff' = s.tServoOff
    /\ tReset' = s.tReset
    /\ resetsThisVisit' = s.resetsThisVisit
    /\ timerArmedIn' = s.timerArmedIn
    /\ cycles' = s.cycles
    /\ mKinematicType' = s.mKinematicType
    /\ m_measured_js_kin' = s.m_measured_js_kin
    /\ jointSet' = s.jointSet
    /\ ikResult' = s.ikResult
    /\ ikSeed' = s.ikSeed
    /\ ikRaw' = s.ikRaw
    /\ ikPrev' = s.ikPrev
    /\ m_effort_orientation_locked' = s.m_effort_orientation_locked
    /\ mEffortOrientation' = s.mEffortOrientation
    /\ mEffortOrientationJoint' = s.mEffortOrientationJoint
    /\ mWrenchType' = s.mWrenchType
    /\ m_measured_js_kin_velocity' = s.m_measured_js_kin_velocity
    /\ effortPreload' = s.effortPreload
    /\ wrenchPreload' = s.wrenchPreload
    /\ GripperClosed' = s.GripperClosed
    /\ StateGripper' = s.StateGripper
    /\ gripperSamples' = s.gripperSamples
    /\ gripperEvents' = s.gripperEvents
    /\ m_measured_js_velocity' = s.m_measured_js_velocity

\* The state a callback starts from: the observation of the step is cleared.
Begin(name) ==
    [Cur EXCEPT !.lastCallback = name, !.calls = <<>>,
                !.trajectoryResult = "NONE", !.trackingError = -1]

Called(s, what) == [s EXCEPT !.calls = Append(@, what)]

---------------------------------------------------------------------------
\* Collaborators outside the component's own file: the servo layer, the
\* upward interface, the base arm class and the state machine object.

\* mtsIntuitiveResearchKitArm::SetPositionJointLocal: the position goes to
\* the PID as its setpoint.
SetPositionJointLocal(s, position) ==
    Called([s EXCEPT !.PID.setpoint = position], "SetPositionJointLocal")

\* RobotInterface->SendStatus / SendError
SendStatus(s) == Called(s, "SendStatus")
SendError(s) == Called(s, "SendError")

\* mtsIntuitiveResearchKitArm::SetDesiredState
SetDesiredState(s, state) ==
    Called([s EXCEPT !.desiredState = state], "SetDesiredState")

\* mArmState.DesiredStateIsNotCurrent()
DesiredStateIsNotCurrent(s) == s.desiredState # s.mArmState

\* mJointTrajectory.Reflexxes.Evaluate(JointSet, JointVelocitySet, Goal,
\* GoalVelocity): the generator is a black box.  It overwrites JointSet and
\* JointVelocitySet with the next trajectory point and leaves a result value.
\* The joints other than the roll have their goal as trajectory point.
Evaluate(s, result, roll, rollVelocity) ==
    [s EXCEPT !.JointSet = [s.Goal EXCEPT ![JNT_WRIST_ROLL] = roll],
              !.JointVelocitySet =
                  [s.GoalVelocity EXCEPT ![JNT_WRIST_ROLL] = rollVelocity],
              !.trajectoryResult = result]

\* The roll positions the generator may produce in state s: the goal when
\* the final state is reached, else a point between the current trajectory
\* position and the goal.
Between(a, x, b) == (a <= x /\ x <= b) \/ (b <= x /\ x <= a)
EvaluateRolls(s, result) ==
    IF result = "FINAL_STATE_REACHED"
    THEN {s.Goal[JNT_WRIST_ROLL]}
    ELSE {s.JointSet[JNT_WRIST_ROLL]} \cup
         {p \in RollGrid : Between(s.JointSet[JNT_WRIST_ROLL], p,
                                   s.Goal[JNT_WRIST_ROLL])}
EvaluateVelocities(s, result) ==
    IF result = "FINAL_STATE_REACHED"
    THEN {s.GoalVelocity[JNT_WRIST_ROLL]}
    ELSE RollVelocities

\* mtsIntuitiveResearchKitArm::GetRobotData at the start of a cycle: a new
\* tic, new measured positions, and the PID's setpoint read back.
ArmGetRobotData(s, dt, measured) ==
    [s EXCEPT !.currentTime = @ + dt,
              !.cycles = @ + 1,
              !.m_measured_js_pid = measured,
              !.m_setpoint_js_pid = s.PID.setpoint]

\* GripperEvents.GripperClosed(flag) / GripperEvents.GripperPinch.Execute()
GripperEvent(s, sample, event) ==
    Called([s EXCEPT !.gripperEvents =
                         Append(@, [sample |-> sample, event |-> event])],
           event)

\* RobotIO.GetAnalogInputPosSI: the read succeeds or not; the gripper
\* position it delivers is in tenths.
GripperPositions == {-1, 0, 5, 6}
AnalogInputs ==
    {[ok |-> FALSE, position |-> 0]} \cup
    {[ok |-> TRUE, position |-> p] : p \in GripperPositions}
\* The gripper left open, as it is while the roll is calibrated.
GripperAtRest == [ok |-> TRUE, position |-> 5]

GetRobotData_ClosesAtZero(s, dt, measured, analog) ==
    LET a == ArmGetRobotData(s, dt, measured)
    IN  IF a.m_simulated THEN a
        ELSE IF ~ analog.ok THEN a
        ELSE
          LET position == analog.position
              b == [a EXCEPT !.StateGripper = position,
                             !.gripperSamples = Append(@, position)]
              n == Len(b.gripperSamples)
          IN  IF b.GripperClosed
              THEN IF position > 0
                   THEN GripperEvent(
                            [b EXCEPT !.GripperClosed = FALSE],
                            n, "GripperClosed(false)")
                   ELSE b
              ELSE IF position <= 0
                   THEN GripperEvent(
                            GripperEvent(
                                [b EXCEPT !.GripperClosed = TRUE],
                                n, "GripperClosed(true)"),
                            n, "GripperPinch")
                   ELSE b

\* mtsIntuitiveResearchKitMTM::GetRobotData.  Of StateGripper the position
\* is followed, not the timestamp and validity copied from the joints.
GetRobotData(s, dt, measured, analog) ==
    LET a == ArmGetRobotData(s, dt, measured)
    IN  IF a.m_simulated THEN a
        ELSE IF ~ analog.ok THEN a
        ELSE
          LET position == analog.position
              b == [a EXCEPT !.StateGripper = position,
                             !.gripperSamples = Append(@, position)]
              n == Len(b.gripperSamples)
          IN  IF b.GripperClosed
              THEN IF position > 0
                   THEN GripperEvent(
                            [b EXCEPT !.GripperClosed = FALSE],
                            n, "GripperClosed(false)")
                   ELSE b
              ELSE IF position < 0
                   THEN GripperEvent(
                            GripperEvent(
                                [b EXCEPT !.GripperClosed = TRUE],
                                n, "GripperClosed(true)"),
                            n, "GripperPinch")
                   ELSE b

RollReferenced_IgnoresHomedOnce(s) == s.m_simulated \/ s.mAllEncodersBiased

\* if (m_simulated || this->mHomedOnce || this->mAllEncodersBiased)
RollReferenced(s) == s.m_simulated \/ s.mHomedOnce \/ s.mAllEncodersBiased

---------------------------------------------------------------------------
\* Enter callbacks.

\* EnterCalibratingRoll past its guard
CalibratingRollSetup(s) ==
      LET tolerance == [s.DefaultTrackingErrorTolerance
                          EXCEPT ![JNT_WRIST_ROLL] = (3 * maxRollRange) \div 2]
          currentRoll == s.m_setpoint_js_pid[JNT_WRIST_ROLL]
          s1 == [s EXCEPT !.DefaultTrackingErrorTolerance = tolerance,
                          !.PID.TrackingErrorTolerance = tolerance,
                          !.PID.CheckPositionLimit = FALSE]
          s2 == Called(Called(s1, "PID.SetTrackingErrorTolerance"),
                       "PID.SetCheckPositionLimit")
          s3 == [s2 EXCEPT !.Goal = [SetAll(0) EXCEPT ![JNT_WRIST_ROLL] =
                                        currentRoll - maxRollRange],
                           !.GoalVelocity = SetAll(0),
                           !.EndTime = 0]
          s4 == Called(s3, "SetControlSpaceAndMode")
          s5 == Called([s4 EXCEPT !.PID.TrackingErrorEnabled = TRUE],
                       "PID.EnableTrackingError")
      IN  SendStatus(s5)

EnterCalibratingRoll_Unguarded(s) ==
    IF s.m_simulated THEN s ELSE CalibratingRollSetup(s)

EnterCalibratingRoll(s) ==
    IF RollReferenced(s) THEN s ELSE CalibratingRollSetup(s)

EnterHomingRoll_KeepsEndTime(s) ==
    IF RollReferenced(s) THEN s
    ELSE
      LET s1 == [s EXCEPT !.Goal = [SetAll(0) EXCEPT ![JNT_WRIST_ROLL] =
                                       s.mHomingCalibrateRollLower + 480],
                          !.GoalVelocity = SetAll(0),
                          !.JointVelocitySet = SetAll(0)]
          s2 == Called(s1, "SetControlSpaceAndMode")
          s3 == Called([s2 EXCEPT !.PID.TrackingErrorEnabled = TRUE],
                       "PID.EnableTrackingError")
      IN  SendStatus(s3)

EnterHomingRoll(s) ==
    IF RollReferenced(s) THEN s
    ELSE
      LET s1 == [s EXCEPT !.Goal = [SetAll(0) EXCEPT ![JNT_WRIST_ROLL] =
                                       s.mHomingCalibrateRollLower + 480],
                          !.GoalVelocity = SetAll(0),
                          !.EndTime = 0,
                          !.JointVelocitySet = SetAll(0)]
          s2 == Called(s1, "SetControlSpaceAndMode")
          s3 == Called([s2 EXCEPT !.PID.TrackingErrorEnabled = TRUE],
                       "PID.EnableTrackingError")
      IN  SendStatus(s3)

EnterResettingRollEncoder_NoTimer(s) ==
    LET enableJoints == [SetAll(TRUE) EXCEPT ![6] = FALSE]
        s1 == [s EXCEPT !.mHomingRollEncoderReset = FALSE,
                        !.PID.EnabledJoints = enableJoints,
                        !.rollDisables = @ + 1,
                        !.tServoOff = s.currentTime,
                        !.resetsThisVisit = 0]
    IN  Called(s1, "PID.EnableJoints")

EnterResettingRollEncoder(s) ==
    LET enableJoints == [SetAll(TRUE) EXCEPT ![6] = FALSE]
        s1 == [s EXCEPT !.mHomingRollEncoderReset = FALSE,
                        !.PID.EnabledJoints = enableJoints,
                        !.rollDisables = @ + 1,
                        !.tServoOff = s.currentTime,
                        !.resetsThisVisit = 0]
    IN  [Called(s1, "PID.EnableJoints") EXCEPT !.mHomingTimer = s.currentTime]

\* mtsStateMachine::SetCurrentState with the enter callbacks Init registers.
SetCurrentState(s, newState) ==
    LET s1 == [s EXCEPT !.mArmState = newState, !.trace = Append(@, newState)]
    IN  CASE newState = "CALIBRATING_ROLL" -> EnterCalibratingRoll(s1)
          [] newState = "HOMING_ROLL" -> EnterHomingRoll(s1)
          [] newState = "RESETTING_ROLL_ENCODER" -> EnterResettingRollEncoder(s1)
          [] OTHER -> s1

---------------------------------------------------------------------------
\* Transition and run callbacks.

TransitionArmHomed(s) ==
    IF DesiredStateIsNotCurrent(s)
    THEN SetCurrentState(s, "CALIBRATING_ROLL")
    ELSE s

HardStopDetected_AtThreshold(error) == error >= maxTrackingError

\* if (trackingError > maxTrackingError)
HardStopDetected(error) == error > maxTrackingError

WentPastRollLowerLimit_ErrorOnly(s) == SendError(s)

\* case robReflexxes::Reflexxes_FINAL_STATE_REACHED of RunCalibratingRoll
WentPastRollLowerLimit_FallbackBeforeError(s) ==
    SendError(SetDesiredState(s, mFallbackState))

WentPastRollLowerLimit(s) == SetDesiredState(SendError(s), mFallbackState)

\* default case of RunCalibratingRoll and of RunHomingRoll
ErrorWhileEvaluatingTrajectory(s) == SendError(s)

\* The inputs of the cycle are the generator's result, the trajectory point
\* it produces for the roll and the duration it predicts.
RunCalibratingRoll(s, result, roll, rollVelocity, duration) ==
    IF RollReferenced(s) THEN SetCurrentState(s, "ROLL_CALIBRATED")
    ELSE
      LET s1 == Evaluate(s, result, roll, rollVelocity)
          s2 == SetPositionJointLocal(s1, s1.JointSet)
      IN
      CASE result = "WORKING" ->
             LET s3 == IF s2.EndTime = 0
                       THEN [s2 EXCEPT !.EndTime = s2.currentTime + duration,
                                       !.mHomingTimer = s2.currentTime + duration,
                                       !.timerArmedIn = "CALIBRATING_ROLL"]
                       ELSE s2
                 measuredRoll == s3.m_measured_js_pid[JNT_WRIST_ROLL]
                 error == Abs(measuredRoll - s3.JointSet[JNT_WRIST_ROLL])
                 s4 == [s3 EXCEPT !.trackingError = error]
             IN  IF HardStopDetected(error)
                 THEN
                   LET s5 == [s4 EXCEPT !.mHomingCalibrateRollLower = measuredRoll,
                                        !.JointSet[JNT_WRIST_ROLL] = measuredRoll]
                       s6 == SetPositionJointLocal(s5, s5.JointSet)
                       s7 == [s6 EXCEPT !.DefaultTrackingErrorTolerance = SetAll(20),
                                        !.PID.TrackingErrorTolerance = SetAll(20),
                                        !.PID.TrackingErrorEnabled = TRUE]
                       s8 == Called(Called(s7, "PID.SetTrackingErrorTolerance"),
                                    "PID.EnableTrackingError")
                   IN  SetCurrentState(SendStatus(s8), "ROLL_CALIBRATED")
                 ELSE
                   IF s4.currentTime > s4.mHomingTimer + extraTime
                   THEN SetDesiredState(SendError(s4), mFallbackState)
                   ELSE s4
        [] result = "FINAL_STATE_REACHED" ->
             WentPastRollLowerLimit(s2)
        [] OTHER ->
             ErrorWhileEvaluatingTrajectory(s2)

TransitionRollCalibrated_SkipsHoming(s) ==
    IF DesiredStateIsNotCurrent(s)
    THEN SetCurrentState(s, "RESETTING_ROLL_ENCODER")
    ELSE s

TransitionRollCalibrated(s) ==
    IF DesiredStateIsNotCurrent(s)
    THEN SetCurrentState(s, "HOMING_ROLL")
    ELSE s

IsHomed_Inclusive(s) ==
    ~ \E j \in Joints :
        Abs(s.Goal[j] - s.m_measured_js_pid[j]) > GoalTolerance[j]

\* GoalError.ElementwiseGreaterOrEqual(GoalTolerance).Any() negated
IsHomed(s) ==
    ~ \E j \in Joints :
        Abs(s.Goal[j] - s.m_measured_js_pid[j]) >= GoalTolerance[j]

RunHomingRoll(s, result, roll, rollVelocity, duration) ==
    IF RollReferenced(s)
    THEN SetCurrentState([s EXCEPT !.mHomedOnce = TRUE], "ROLL_ENCODER_RESET")
    ELSE
      LET s1 == Evaluate(s, result, roll, rollVelocity)
          s2 == SetPositionJointLocal(s1, s1.JointSet)
      IN
      CASE result = "WORKING" ->
             IF s2.EndTime = 0
             THEN [s2 EXCEPT !.EndTime = s2.currentTime + duration,
                             !.mHomingTimer = s2.currentTime + duration,
                             !.timerArmedIn = "HOMING_ROLL"]
             ELSE s2
        [] result = "FINAL_STATE_REACHED" ->
             IF IsHomed(s2)
             THEN SetCurrentState(s2, "RESETTING_ROLL_ENCODER")
             ELSE IF s2.currentTime > s2.mHomingTimer + extraTime
                  THEN SetDesiredState(SendError(s2), mFallbackState)
                  ELSE s2
        [] OTHER ->
             ErrorWhileEvaluatingTrajectory(s2)

RunResettingRollEncoder_LimitCheckLeftOff(s) ==
    IF ~ s.mHomingRollEncoderReset
    THEN IF (s.currentTime - s.mHomingTimer) < timeToWait
         THEN s
         ELSE Called([s EXCEPT !.encoderResets = @ + 1,
                               !.resetsThisVisit = @ + 1,
                               !.tReset = s.currentTime,
                               !.mHomingRollEncoderReset = TRUE],
                     "RobotIO.ResetSingleEncoder")
    ELSE IF (s.currentTime - s.mHomingTimer) < timeToWait
         THEN s
         ELSE
           LET s1 == SetPositionJointLocal([s EXCEPT !.JointSet = SetAll(0)],
                                           SetAll(0))
               s3 == Called([s1 EXCEPT !.PID.EnabledJoints = SetAll(TRUE)],
                            "PID.EnableJoints")
               s4 == [s3 EXCEPT !.m_setpoint_js_pid = SetAll(0),
                                !.mHomedOnce = TRUE]
           IN  SetCurrentState(s4, "ROLL_ENCODER_RESET")

RunResettingRollEncoder(s) ==
    IF ~ s.mHomingRollEncoderReset
    THEN IF (s.currentTime - s.mHomingTimer) < timeToWait
         THEN s
         ELSE Called([s EXCEPT !.encoderResets = @ + 1,
                               !.resetsThisVisit = @ + 1,
                               !.tReset = s.currentTime,
                               !.mHomingRollEncoderReset = TRUE],
                     "RobotIO.ResetSingleEncoder")
    ELSE IF (s.currentTime - s.mHomingTimer) < timeToWait
         THEN s
         ELSE
           LET s1 == SetPositionJointLocal([s EXCEPT !.JointSet = SetAll(0)],
                                           SetAll(0))
               s2 == Called([s1 EXCEPT !.PID.CheckPositionLimit = TRUE],
                            "PID.SetCheckPositionLimit")
               s3 == Called([s2 EXCEPT !.PID.EnabledJoints = SetAll(TRUE)],
                            "PID.EnableJoints")
               s4 == [s3 EXCEPT !.m_setpoint_js_pid = SetAll(0),
                                !.mHomedOnce = TRUE]
           IN  SetCurrentState(s4, "ROLL_ENCODER_RESET")

TransitionRollEncoderReset_NotGuarded(s) == SetCurrentState(s, "READY")

TransitionRollEncoderReset(s) ==
    IF DesiredStateIsNotCurrent(s)
    THEN SetCurrentState(s, "READY")
    ELSE s

\* mtsIntuitiveResearchKitMTM::SetGoalHomingArm: the goal of the base class's
\* arm homing, which precedes ARM_HOMED.
SetGoalHomingArm(s) ==
    [s EXCEPT !.Goal =
        IF ~ (s.mHomedOnce \/ s.mAllEncodersBiased)
        THEN [SetAll(0) EXCEPT ![JNT_WRIST_ROLL] =
                 s.m_setpoint_js_pid[JNT_WRIST_ROLL]]
        ELSE SetAll(0)]

---------------------------------------------------------------------------
\* Initial state: after the constructor's Init().  The state machine is in
\* the base class's initial state.  mHomingTimer, mHomingCalibrateRollLower
\* and mHomingRollEncoderReset are written before they are read on every
\* path that reads them through an armed trajectory or an enter callback.

Init ==
    /\ mArmState = "UNINITIALIZED"
    /\ desiredState = "UNINITIALIZED"
    /\ m_simulated \in BOOLEAN
    /\ mAllEncodersBiased \in BOOLEAN
    /\ mHomedOnce = FALSE
    /\ currentTime = 0
    /\ m_measured_js_pid = SetAll(0)
    /\ m_setpoint_js_pid = SetAll(0)
    /\ JointSet = SetAll(0)
    /\ JointVelocitySet = SetAll(0)
    /\ Goal = SetAll(0)
    /\ GoalVelocity = SetAll(0)
    /\ EndTime = 0
    /\ mHomingTimer = 0
    /\ mHomingCalibrateRollLower = 0
    /\ mHomingRollEncoderReset = FALSE
    /\ DefaultTrackingErrorTolerance = InitTrackingErrorTolerance
    /\ PID = [ setpoint |-> SetAll(0),
               TrackingErrorTolerance |-> InitTrackingErrorTolerance,
               TrackingErrorEnabled |-> FALSE,
               CheckPositionLimit |-> TRUE,
               EnabledJoints |-> SetAll(TRUE),
               TorqueMode |-> <<>> ]
    /\ encoderResets = 0
    /\ lastCallback = "Init"
    /\ calls = <<>>
    /\ trajectoryResult = "NONE"
    /\ trackingError = -1
    /\ trace = <<>>
    /\ homedAtEntry = FALSE
    /\ homingRuns = 0
    /\ rollDisables = 0
    /\ tServoOff = 0
    /\ tReset = 0
    /\ resetsThisVisit = 0
    /\ timerArmedIn = "NONE"
    /\ cycles = 0
    /\ mKinematicType = "MTM_ITERATIVE"
    /\ m_measured_js_kin = SetAll(0)
    /\ jointSet = SetAll(0)
    /\ ikResult = "NONE"
    /\ ikSeed = SetAll(0)
    /\ ikRaw = 0
    /\ ikPrev = <<>>
    /\ m_effort_orientation_locked = FALSE
    /\ mEffortOrientation = 0
    /\ mEffortOrientationJoint = SetAll(0)
    /\ mWrenchType = "WRENCH_UNDEFINED"
    /\ m_measured_js_kin_velocity = SetAll(0)
    /\ effortPreload = SetAll(0)
    /\ wrenchPreload = [i \in 0 .. 5 |-> 0]
    /\ GripperClosed = FALSE
    /\ StateGripper = 0
    /\ gripperSamples = << >>
    /\ gripperEvents = << >>
    /\ m_measured_js_velocity = SetAll(0)

---------------------------------------------------------------------------
\* Steps.

\* An external caller uses the arm's SetDesiredState command: it asks for
\* READY (homing) while the arm is in the fallback state, or for the fallback
\* state (abort) at any time.
SetDesiredStateCommand ==
    \E state \in {"READY", mFallbackState} :
        /\ state # desiredState
        /\ state = "READY" => mArmState = mFallbackState
        /\ Commit(SetDesiredState(Begin("SetDesiredStateCommand"), state))

\* The base class's check, made every cycle in all states before the state's
\* run callback: a pending request for the fallback state is honoured.
RunAllStates ==
    /\ desiredState = mFallbackState
    /\ mArmState # mFallbackState
    /\ Commit(SetCurrentState(Begin("RunAllStates"), mFallbackState))

\* The base class's states up to ARM_HOMED, as one step: the arm is homed to
\* the goal of SetGoalHomingArm.
HomeArm(runs) ==
    /\ mArmState = mFallbackState
    /\ desiredState = "READY"
    /\ homingRuns < runs
    /\ LET s1 == SetGoalHomingArm(Begin("HomeArm"))
           s2 == [s1 EXCEPT !.JointSet = s1.Goal,
                            !.PID.setpoint = s1.Goal,
                            !.m_setpoint_js_pid = s1.Goal,
                            !.mArmState = "ARM_HOMED",
                            !.trace = <<"ARM_HOMED">>,
                            !.homedAtEntry = s1.mHomedOnce,
                            !.homingRuns = @ + 1,
                            !.tServoOff = 0,
                            !.tReset = 0,
                            !.resetsThisVisit = 0,
                            !.timerArmedIn = "NONE"]
       IN  Commit(s2)

ArmHomed ==
    /\ mArmState = "ARM_HOMED"
    /\ Commit(TransitionArmHomed(Begin("TransitionArmHomed")))

CalibratingRoll(steps, measurements) ==
    /\ mArmState = "CALIBRATING_ROLL"
    /\ \E dt \in steps, measured \in measurements, result \in Results,
          duration \in Durations :
        /\ currentTime + dt <= MaxTime
        /\ cycles < MaxCycles
        /\ desiredState # mFallbackState
        /\ LET s == GetRobotData(Begin("RunCalibratingRoll"), dt, measured,
                                 GripperAtRest)
           IN  \E roll \in EvaluateRolls(s, result),
                  rollVelocity \in EvaluateVelocities(s, result) :
                   Commit(RunCalibratingRoll(s, result, roll, rollVelocity,
                                             duration))

RollCalibrated ==
    /\ mArmState = "ROLL_CALIBRATED"
    /\ Commit(TransitionRollCalibrated(Begin("TransitionRollCalibrated")))

HomingRoll(steps, measurements) ==
    /\ mArmState = "HOMING_ROLL"
    /\ \E dt \in steps, measured \in measurements, result \in Results,
          duration \in Durations :
        /\ currentTime + dt <= MaxTime
        /\ cycles < MaxCycles
        /\ desiredState # mFallbackState
        /\ LET s == GetRobotData(Begin("RunHomingRoll"), dt, measured,
                                 GripperAtRest)
           IN  \E roll \in EvaluateRolls(s, result),
                  rollVelocity \in EvaluateVelocities(s, result) :
                   Commit(RunHomingRoll(s, result, roll, rollVelocity,
                                        duration))

ResettingRollEncoder(steps, measurements) ==
    /\ mArmState = "RESETTING_ROLL_ENCODER"
    /\ \E dt \in steps, measured \in measurements :
        /\ currentTime + dt <= MaxTime
        /\ cycles < MaxCycles
        /\ desiredState # mFallbackState
        /\ Commit(RunResettingRollEncoder(
               GetRobotData(Begin("RunResettingRollEncoder"), dt, measured,
                            GripperAtRest)))

RollEncoderReset ==
    /\ mArmState = "ROLL_ENCODER_RESET"
    /\ Commit(TransitionRollEncoderReset(Begin("TransitionRollEncoderReset")))

\* The first homing of the process, with every input of a cycle.
Next ==
    \/ SetDesiredStateCommand
    \/ RunAllStates
    \/ HomeArm(1)
    \/ ArmHomed
    \/ CalibratingRoll(TimeSteps, MeasuredSet)
    \/ RollCalibrated
    \/ HomingRoll(TimeSteps, MeasuredSet)
    \/ ResettingRollEncoder(TimeSteps, MeasuredSet)
    \/ RollEncoderReset

Spec == Init /\ [][Next]_vars

\* Repeated homing requests within one process lifetime.
NextRehoming ==
    \/ SetDesiredStateCommand
    \/ RunAllStates
    \/ HomeArm(MaxHomingRuns)
    \/ ArmHomed
    \/ CalibratingRoll(RehomingTimeSteps, RehomingMeasuredSet)
    \/ RollCalibrated
    \/ HomingRoll(RehomingTimeSteps, RehomingMeasuredSet)
    \/ ResettingRollEncoder(RehomingTimeSteps, RehomingMeasuredSet)
    \/ RollEncoderReset

SpecRehoming == Init /\ [][NextRehoming]_vars

\* An external caller changes the desired state while the calibration is
\* under way: to READY, or to one of the two states that only wait for a
\* pending state change, in which the arm then rests.
SetDesiredStateDuringCalibration ==
    \E state \in {"READY", "ROLL_CALIBRATED", "ROLL_ENCODER_RESET"} :
        /\ state # desiredState
        /\ desiredState # mFallbackState
        /\ mArmState \notin {mFallbackState, "READY"}
        /\ Commit(SetDesiredState(Begin("SetDesiredStateCommand"), state))

\* One homing during which the desired state may change.
NextDesired ==
    \/ SetDesiredStateCommand
    \/ SetDesiredStateDuringCalibration
    \/ RunAllStates
    \/ HomeArm(1)
    \/ ArmHomed
    \/ CalibratingRoll(RehomingTimeSteps, RehomingMeasuredSet)
    \/ RollCalibrated
    \/ HomingRoll(RehomingTimeSteps, RehomingMeasuredSet)
    \/ ResettingRollEncoder(RehomingTimeSteps, RehomingMeasuredSet)
    \/ RollEncoderReset

SpecDesired == Init /\ [][NextDesired]_vars

---------------------------------------------------------------------------
\* Vocabulary of the properties.

\* The callback of the last step made this outward call.
Has(call) == \E i \in 1 .. Len(calls) : calls[i] = call

CalibrationCallbacks ==
    {"TransitionArmHomed", "RunCalibratingRoll", "TransitionRollCalibrated",
     "RunHomingRoll", "RunResettingRollEncoder", "TransitionRollEncoderReset"}

CalibrationOrder ==
    <<"ARM_HOMED", "CALIBRATING_ROLL", "ROLL_CALIBRATED", "HOMING_ROLL",
      "RESETTING_ROLL_ENCODER", "ROLL_ENCODER_RESET", "READY">>

SkipOrder ==
    <<"ARM_HOMED", "CALIBRATING_ROLL", "ROLL_CALIBRATED", "HOMING_ROLL",
      "ROLL_ENCODER_RESET", "READY">>

\* The roll joint had no reference when this homing began.
NotReferencedAtEntry == ~ m_simulated /\ ~ mAllEncodersBiased /\ ~ homedAtEntry

\* The run callback of the last step went past its guard.
NotReferenced == ~ m_simulated /\ ~ mAllEncodersBiased /\ ~ mHomedOnce

MeasuredRoll == m_measured_js_pid[JNT_WRIST_ROLL]

---------------------------------------------------------------------------
\* C1.  When the roll joint is not referenced at the start of a homing, the
\* states after ARM_HOMED are entered only in the order CALIBRATING_ROLL,
\* ROLL_CALIBRATED, HOMING_ROLL, RESETTING_ROLL_ENCODER, ROLL_ENCODER_RESET,
\* READY: each state of this list that is entered is entered from the state
\* before it in the list, so none is skipped and READY is entered only from
\* ROLL_ENCODER_RESET.
C1_CalibrationOrder ==
    NotReferencedAtEntry =>
        \A i \in 1 .. Len(trace) :
            \A k \in 2 .. Len(CalibrationOrder) :
                trace[i] = CalibrationOrder[k] =>
                    (i > 1 /\ trace[i - 1] = CalibrationOrder[k - 1])

C1_Witness ==
    /\ NotReferencedAtEntry
    /\ mArmState = "READY"
    /\ trace = CalibrationOrder

\* C2.  Calibration skip: in a homing that began with mHomedOnce or
\* mAllEncodersBiased true, no step of a calibration callback sets a
\* trajectory goal, commands a joint setpoint, changes the tracking error
\* tolerance or the joint limit checking, disables a servo or resets an
\* encoder; it makes no outward call at all.  Each run callback advances in
\* its first cycle and each transition callback advances when READY is
\* desired, along ARM_HOMED, CALIBRATING_ROLL, ROLL_CALIBRATED, HOMING_ROLL,
\* ROLL_ENCODER_RESET, READY, with mHomedOnce true from ROLL_ENCODER_RESET on.
C2_SkipStep ==
    /\ UNCHANGED <<Goal, GoalVelocity, EndTime, JointSet, JointVelocitySet,
                   PID, DefaultTrackingErrorTolerance, encoderResets,
                   rollDisables>>
    /\ calls' = <<>>
    /\ mArmState' # "RESETTING_ROLL_ENCODER"
    /\ lastCallback' = "RunCalibratingRoll" => mArmState' = "ROLL_CALIBRATED"
    /\ lastCallback' = "RunHomingRoll" =>
           (mArmState' = "ROLL_ENCODER_RESET" /\ mHomedOnce')
    /\ desiredState = "READY" =>
           /\ lastCallback' = "TransitionArmHomed" =>
                  mArmState' = "CALIBRATING_ROLL"
           /\ lastCallback' = "TransitionRollCalibrated" =>
                  mArmState' = "HOMING_ROLL"
           /\ lastCallback' = "TransitionRollEncoderReset" =>
                  mArmState' = "READY"

C2_SkipCommandsNothing ==
    [][ ( /\ homedAtEntry \/ mAllEncodersBiased
          /\ lastCallback' \in CalibrationCallbacks )
        => C2_SkipStep ]_vars

C2_Witness ==
    /\ homedAtEntry
    /\ ~ mAllEncodersBiased
    /\ ~ m_simulated
    /\ mArmState = "READY"
    /\ trace = SkipOrder

\* C3 as claimed.  Over any sequence of homing requests the roll encoder is
\* reset at most once and the roll servo is disabled at most once.
C3_AtMostOneResetEver == encoderResets <= 1 /\ rollDisables <= 1

\* C3.  Once mHomedOnce is set it stays set, and from then on no step resets
\* the roll encoder, disables the roll servo or enters
\* RESETTING_ROLL_ENCODER: every later homing takes the skip path.
C3_NoResetOnceHomed ==
    [][ mHomedOnce =>
          /\ mHomedOnce'
          /\ encoderResets' = encoderResets
          /\ rollDisables' = rollDisables
          /\ mArmState' # "RESETTING_ROLL_ENCODER" ]_vars

C3_Witness ==
    /\ mHomedOnce
    /\ ~ m_simulated
    /\ ~ mAllEncodersBiased
    /\ homingRuns = 2
    /\ mArmState = "READY"
    /\ encoderResets = 1
    /\ rollDisables = 1

\* C4.  Hard stop detection.  In a cycle of RunCalibratingRoll past its
\* guard whose trajectory result is WORKING and whose tracking error exceeds
\* pi, the measured roll is recorded as the lower limit, the roll setpoint is
\* commanded to the measured roll, the tracking error tolerance sent to the
\* PID is below pi with supervision enabled, and the state is ROLL_CALIBRATED.
\* A cycle past the guard ends in ROLL_CALIBRATED only in that case.
C4_HardStopDetection ==
    (lastCallback = "RunCalibratingRoll" /\ NotReferenced) =>
        /\ (trajectoryResult = "WORKING" /\ trackingError > 180) =>
               /\ mHomingCalibrateRollLower = MeasuredRoll
               /\ JointSet[6] = MeasuredRoll
               /\ PID.setpoint[6] = MeasuredRoll
               /\ \A j \in Joints : PID.TrackingErrorTolerance[j] < 180
               /\ PID.TrackingErrorEnabled
               /\ mArmState = "ROLL_CALIBRATED"
        /\ mArmState = "ROLL_CALIBRATED" =>
               (trajectoryResult = "WORKING" /\ trackingError > 180)

C4_Witness ==
    /\ lastCallback = "RunCalibratingRoll"
    /\ NotReferenced
    /\ trajectoryResult = "WORKING"
    /\ trackingError = 181
    /\ mArmState = "ROLL_CALIBRATED"
    /\ mHomingCalibrateRollLower = -89

\* C5 as claimed.  In CALIBRATING_ROLL and in HOMING_ROLL, a cycle whose
\* trajectory result is neither WORKING nor FINAL_STATE_REACHED sends an
\* error and asks for the fallback state.
C5_TrajectoryErrorFallsBack ==
    ( /\ lastCallback \in {"RunCalibratingRoll", "RunHomingRoll"}
      /\ trajectoryResult = "ERROR" )
    => ( /\ Has("SendError")
         /\ Has("SetDesiredState")
         /\ desiredState = mFallbackState )

\* C6.  In a cycle of RunCalibratingRoll whose trajectory result is
\* FINAL_STATE_REACHED, an error is sent and then the fallback state is
\* asked for; the lower limit is not recorded and the state stays
\* CALIBRATING_ROLL.
C6_WentPastLimit ==
    [][ ( /\ lastCallback' = "RunCalibratingRoll"
          /\ trajectoryResult' = "FINAL_STATE_REACHED" )
        => ( /\ calls' = <<"SetPositionJointLocal", "SendError",
                           "SetDesiredState">>
             /\ desiredState' = mFallbackState
             /\ mHomingCalibrateRollLower' = mHomingCalibrateRollLower
             /\ mArmState' = "CALIBRATING_ROLL" ) ]_vars

C6_Witness ==
    /\ lastCallback = "RunCalibratingRoll"
    /\ trajectoryResult = "FINAL_STATE_REACHED"
    /\ desiredState = mFallbackState
    /\ mArmState = "CALIBRATING_ROLL"

\* C7 as claimed.  In a cycle of RunCalibratingRoll past its guard that does
\* not detect the hard stop, with the deadline armed: when the tic exceeds
\* the predicted end time plus 2 s, an error is sent and the fallback state
\* asked for; when the tic is at or before it and the trajectory is WORKING,
\* neither happens.
C7_CalibratingRollTimeout ==
    ( /\ lastCallback = "RunCalibratingRoll"
      /\ NotReferenced
      /\ mArmState = "CALIBRATING_ROLL"
      /\ EndTime # 0 )
    => /\ currentTime > EndTime + 2000 =>
              ( /\ Has("SendError")
                /\ Has("SetDesiredState")
                /\ desiredState = mFallbackState )
       /\ (currentTime <= EndTime + 2000 /\ trajectoryResult = "WORKING") =>
              (~ Has("SendError") /\ ~ Has("SetDesiredState"))

\* Every joint's measured position is less than its goal tolerance from the
\* goal: 3 degrees, 6 degrees for the roll.
WithinGoalTolerance ==
    \A j \in Joints :
        Abs(Goal[j] - m_measured_js_pid[j]) < (IF j = 6 THEN 6 ELSE 3)

\* C8 as claimed.  A cycle of RunHomingRoll with FINAL_STATE_REACHED and
\* every joint within its goal tolerance marks the arm homed and ends in
\* RESETTING_ROLL_ENCODER; a cycle with WORKING does not end there.
C8_HomedMarkedOnArrival ==
    lastCallback = "RunHomingRoll" =>
        /\ (trajectoryResult = "FINAL_STATE_REACHED" /\ WithinGoalTolerance) =>
               (mHomedOnce /\ mArmState = "RESETTING_ROLL_ENCODER")
        /\ trajectoryResult = "WORKING" =>
               mArmState # "RESETTING_ROLL_ENCODER"

\* C8.  A cycle of RunHomingRoll with FINAL_STATE_REACHED and every joint
\* less than its goal tolerance from the goal ends in RESETTING_ROLL_ENCODER,
\* and a cycle of RunHomingRoll ends there in no other case; mHomedOnce is
\* still false then and throughout RESETTING_ROLL_ENCODER.
C8_ArrivalEntersResetting ==
    /\ lastCallback = "RunHomingRoll" =>
        /\ (trajectoryResult = "FINAL_STATE_REACHED" /\ WithinGoalTolerance) =>
               (mArmState = "RESETTING_ROLL_ENCODER" /\ ~ mHomedOnce)
        /\ mArmState = "RESETTING_ROLL_ENCODER" =>
               (trajectoryResult = "FINAL_STATE_REACHED" /\ WithinGoalTolerance)
    /\ mArmState = "RESETTING_ROLL_ENCODER" => ~ mHomedOnce

C8_Witness ==
    /\ lastCallback = "RunHomingRoll"
    /\ trajectoryResult = "FINAL_STATE_REACHED"
    /\ Goal[6] = 391
    /\ MeasuredRoll = 386
    /\ mArmState = "RESETTING_ROLL_ENCODER"
    /\ ~ mHomedOnce

\* C9 as claimed.  In a cycle of RunHomingRoll past its guard that stays in
\* HOMING_ROLL: the fallback state is asked for only with an error sent, only
\* against a deadline armed from the HOMING_ROLL trajectory and only after
\* that deadline plus 2 s; and once the tic exceeds the HOMING_ROLL
\* trajectory's predicted end time plus 2 s with the arm not within
\* tolerance, the error is sent and the fallback state asked for.
C9_HomingRollTimeout ==
    ( /\ lastCallback = "RunHomingRoll"
      /\ NotReferenced
      /\ mArmState = "HOMING_ROLL" )
    => /\ Has("SetDesiredState") =>
              ( /\ Has("SendError")
                /\ timerArmedIn = "HOMING_ROLL"
                /\ EndTime # 0
                /\ currentTime > EndTime + 2000 )
       /\ (EndTime # 0 /\ currentTime > EndTime + 2000
             /\ ~ WithinGoalTolerance) =>
              (Has("SendError") /\ Has("SetDesiredState"))

C11_SecondDelayFromReset ==
    ( /\ lastCallback = "RunResettingRollEncoder"
      /\ mArmState = "ROLL_ENCODER_RESET" )
    => currentTime - tReset >= 10

\* C12.  The cycle of RunResettingRollEncoder that enters ROLL_ENCODER_RESET
\* has, in that cycle, enabled joint-limit checking, enabled the servo of
\* every joint, commanded position zero on every joint, zeroed the stored
\* setpoint and set mHomedOnce, and the encoder was reset in an earlier cycle
\* of the visit.  While the state is RESETTING_ROLL_ENCODER none of these is
\* done: limit checking is off, the roll servo is off, mHomedOnce is false,
\* and no cycle of the state calls PID.SetCheckPositionLimit, PID.EnableJoints
\* or SetPositionJointLocal.
C12_ReenableOnCompletion ==
    /\ ( /\ lastCallback = "RunResettingRollEncoder"
         /\ mArmState = "ROLL_ENCODER_RESET" )
       => /\ Has("PID.SetCheckPositionLimit")
          /\ PID.CheckPositionLimit
          /\ Has("PID.EnableJoints")
          /\ PID.EnabledJoints = SetAll(TRUE)
          /\ Has("SetPositionJointLocal")
          /\ JointSet = SetAll(0)
          /\ PID.setpoint = SetAll(0)
          /\ m_setpoint_js_pid = SetAll(0)
          /\ mHomedOnce
          /\ resetsThisVisit = 1
          /\ ~ Has("RobotIO.ResetSingleEncoder")
    /\ mArmState = "RESETTING_ROLL_ENCODER"
       => /\ ~ PID.CheckPositionLimit
          /\ ~ PID.EnabledJoints[JNT_WRIST_ROLL]
          /\ ~ mHomedOnce
          /\ lastCallback = "RunResettingRollEncoder"
             => /\ ~ Has("PID.SetCheckPositionLimit")
                /\ ~ Has("PID.EnableJoints")
                /\ ~ Has("SetPositionJointLocal")

C12_Witness ==
    /\ lastCallback = "RunResettingRollEncoder"
    /\ mArmState = "ROLL_ENCODER_RESET"
    /\ PID.CheckPositionLimit
    /\ PID.EnabledJoints = SetAll(TRUE)
    /\ mHomedOnce
    /\ encoderResets = 1

\* C13.  Every evaluation of the transition callback of ROLL_CALIBRATED made
\* while the desired state differs from the current state enters HOMING_ROLL,
\* and every such evaluation in ROLL_ENCODER_RESET enters READY; while the
\* desired state is the current state, no step takes the arm out of
\* ROLL_CALIBRATED or ROLL_ENCODER_RESET.
C13_AdvanceWhenPending ==
    [][ /\ lastCallback' = "TransitionRollCalibrated" =>
             /\ mArmState = "ROLL_CALIBRATED"
             /\ mArmState' = IF desiredState # mArmState
                             THEN "HOMING_ROLL" ELSE "ROLL_CALIBRATED"
        /\ lastCallback' = "TransitionRollEncoderReset" =>
             /\ mArmState = "ROLL_ENCODER_RESET"
             /\ mArmState' = IF desiredState # mArmState
                             THEN "READY" ELSE "ROLL_ENCODER_RESET"
        /\ ( /\ mArmState \in {"ROLL_CALIBRATED", "ROLL_ENCODER_RESET"}
             /\ desiredState = mArmState ) => mArmState' = mArmState ]_vars

C13_Witness ==
    /\ lastCallback = "TransitionRollEncoderReset"
    /\ mArmState = "ROLL_ENCODER_RESET"
    /\ desiredState = "ROLL_ENCODER_RESET"
    /\ \E i \in 1 .. Len(trace) : trace[i] = "HOMING_ROLL"

\* The step is a cycle of RunCalibratingRoll or RunHomingRoll past its guard.
TrajectoryCycle ==
    /\ lastCallback' \in {"RunCalibratingRoll", "RunHomingRoll"}
    /\ NotReferenced

C15_ErrorBeforeFallback ==
    lastCallback \in CalibrationCallbacks =>
        \A i \in 1 .. Len(calls) :
            calls[i] = "SetDesiredState" =>
                /\ \E j \in 1 .. (i - 1) : calls[j] = "SendError"
                /\ desiredState = mFallbackState

C15_Witness ==
    /\ lastCallback = "RunHomingRoll"
    /\ Has("SetDesiredState")
    /\ Has("SendError")
    /\ desiredState = mFallbackState

---------------------------------------------------------------------------
\* Inverse kinematics.

\* Inputs of the kinematics steps.  The seed varies in the platform joint
\* (3), the wrist pitch (4), the wrist yaw (5) and the roll (6).
PlatformSeeds == {0, 190}
PitchSeeds == {60}
YawSeeds == {40}
RollSeeds == {0}
SeedSet ==
    { [SetAll(0) EXCEPT ![3] = a, ![4] = b, ![5] = c, ![JNT_WRIST_ROLL] = r] :
          a \in PlatformSeeds, b \in PitchSeeds, c \in YawSeeds,
          r \in RollSeeds }
ReferenceRolls == {-200, 0, 180, 540}
SolverRolls == {0, 170, 190}
SolverOutcomes ==
    {[errno |-> "EFAILURE", roll |-> 0]} \cup
    {[errno |-> "ESUCCESS", roll |-> r] : r \in SolverRolls}

\* Twice the cosine, at the angles where it is an integer.
TwiceCos(angle) ==
    CASE angle = 0 -> 2
      [] angle = 60 -> 1
      [] angle = 90 -> 0
      [] angle = 180 -> -2

\* Manipulator->links[3].GetKinematics()->PositionMax() / PositionMin()
q3Max == 200
q3Min == -45

\* nearbyint(n / d) for d > 0: the nearest integer, a tie going to the even
\* one (the default rounding mode).
NearbyInt(n, d) ==
    LET q == n \div d
        r == n % d
    IN  IF 2 * r < d THEN q
        ELSE IF 2 * r > d THEN q + 1
        ELSE IF q % 2 = 0 THEN q ELSE q + 1

\* The quotient cut towards zero.
Truncate(n, d) == IF n >= 0 THEN n \div d ELSE - ((- n) \div d)

ClosestRoll_Truncated(reference, roll) ==
    roll + Truncate(reference - roll, 2 * cmnPI) * 2 * cmnPI

\* find closest solution mod 2 pi
ClosestRoll(reference, roll) ==
    roll + NearbyInt(reference - roll, 2 * cmnPI) * 2 * cmnPI

\* MTM_ITERATIVE: the platform joint follows the projection of the roll
\* axis, within its joint limits.
PlatformCoupling(q) ==
    LET q3 == q[3] + (q[5] * TwiceCos(q[4])) \div 2
    IN  [q EXCEPT ![3] = IF q3 > q3Max THEN q3Max
                         ELSE IF q3 < q3Min THEN q3Min
                         ELSE q3]

\* Manipulator->InverseKinematics(jointSet, cartesianGoal): the solver is a
\* black box working on the caller's vector.  Of a solution only the roll is
\* followed here; a failing solver leaves the vector as it got it.
ManipulatorInverseKinematics(q, outcome) ==
    IF outcome.errno = "ESUCCESS"
    THEN [q EXCEPT ![JNT_WRIST_ROLL] = outcome.roll]
    ELSE q

\* mtsIntuitiveResearchKitMTM::InverseKinematics(jointSet, cartesianGoal),
\* jointSet being passed by reference with the value seed.
InverseKinematics(s, seed, outcome) ==
    LET q1 == IF s.mKinematicType = "MTM_ITERATIVE"
              THEN PlatformCoupling(seed) ELSE seed
        q2 == ManipulatorInverseKinematics(q1, outcome)
        s1 == [s EXCEPT !.ikSeed = seed, !.ikRaw = q2[JNT_WRIST_ROLL]]
    IN  IF outcome.errno = "ESUCCESS"
        THEN [s1 EXCEPT !.jointSet =
                            [q2 EXCEPT ![JNT_WRIST_ROLL] =
                                ClosestRoll(s.m_measured_js_kin[JNT_WRIST_ROLL],
                                            q2[JNT_WRIST_ROLL])],
                        !.ikResult = "ESUCCESS"]
        ELSE [s1 EXCEPT !.jointSet = q2, !.ikResult = "EFAILURE"]

\* Configure: "kinematic-type" of the configuration file, read before the
\* component runs.
ConfigureKinematicType ==
    /\ ikResult = "NONE"
    /\ \E type \in {"MTM_ITERATIVE", "MTM_CLOSED"} :
        /\ type # mKinematicType
        /\ Commit([Begin("Configure") EXCEPT !.mKinematicType = type])

\* A Cartesian goal is converted: the measured roll of the cycle, the
\* caller's seed and what the solver makes of the goal are the inputs.
SolveInverseKinematics ==
    \E reference \in ReferenceRolls, seed \in SeedSet,
       outcome \in SolverOutcomes :
        LET s == [Begin("InverseKinematics") EXCEPT
                      !.m_measured_js_kin =
                          [SetAll(0) EXCEPT ![JNT_WRIST_ROLL] = reference],
                      !.ikPrev =
                          IF lastCallback = "InverseKinematics"
                             /\ ikResult = "ESUCCESS"
                          THEN <<ikRaw, jointSet[JNT_WRIST_ROLL]>>
                          ELSE <<>>]
        IN  Commit(InverseKinematics(s, seed, outcome))

---------------------------------------------------------------------------
\* Effort control with the orientation locked.

Orientations == {0, 90}
EffortRolls == {0, 200}
EffortVelocities == {0, 5}
EffortMeasuredSet ==
    { [SetAll(0) EXCEPT ![JNT_WRIST_ROLL] = r] : r \in EffortRolls }
ReferenceMeasuredSet ==
    { [SetAll(0) EXCEPT ![JNT_WRIST_ROLL] = r] : r \in ReferenceRolls }

\* m_base_frame.Rotation(), an angle about the same axis
BaseFrameRotation == 30

\* m_base_frame.Rotation().ApplyInverseTo(orientation, mEffortOrientation)
ApplyInverseTo(orientation) == (orientation - BaseFrameRotation) % (2 * cmnPI)

SetControlEffortActiveJoints_AllTorque(s) ==
    Called([s EXCEPT !.PID.TorqueMode = SetAll(TRUE)], "PID.EnableTorqueMode")

\* mtsIntuitiveResearchKitMTM::SetControlEffortActiveJoints
SetControlEffortActiveJoints(s) ==
    LET torqueMode == IF s.m_effort_orientation_locked
                      THEN [j \in Joints |-> j < 3]
                      ELSE SetAll(TRUE)
    IN  Called([s EXCEPT !.PID.TorqueMode = torqueMode],
               "PID.EnableTorqueMode")

LockOrientation_AlwaysSnapshots(s, orientation) ==
    LET a == SetControlEffortActiveJoints(
                 [s EXCEPT !.m_effort_orientation_locked = TRUE])
        b == [a EXCEPT !.JointSet = a.m_measured_js_pid,
                       !.JointVelocitySet = a.m_measured_js_velocity]
        s1 == Called(b, "Reflexxes.Set")
    IN  [s1 EXCEPT !.mEffortOrientation = ApplyInverseTo(orientation),
                   !.mEffortOrientationJoint = s1.m_measured_js_pid]

\* mtsIntuitiveResearchKitMTM::LockOrientation
LockOrientation(s, orientation) ==
    LET s1 == IF ~ s.m_effort_orientation_locked
              THEN
                LET a == SetControlEffortActiveJoints(
                             [s EXCEPT !.m_effort_orientation_locked = TRUE])
                    b == [a EXCEPT !.JointSet = a.m_measured_js_pid,
                                   !.JointVelocitySet = a.m_measured_js_velocity]
                IN  Called(b, "Reflexxes.Set")
              ELSE s
    IN  [s1 EXCEPT !.mEffortOrientation = ApplyInverseTo(orientation),
                   !.mEffortOrientationJoint = s1.m_measured_js_pid]

\* mtsIntuitiveResearchKitMTM::UnlockOrientation
UnlockOrientation(s) ==
    IF s.m_effort_orientation_locked
    THEN SetControlEffortActiveJoints(
             [s EXCEPT !.m_effort_orientation_locked = FALSE])
    ELSE s

ControlEffortOrientationLocked_FallsBackToSeed(s, outcome, result, arrived, rollVelocity) ==
    LET seed == s.mEffortOrientationJoint
        q == ManipulatorInverseKinematics(seed, outcome)
        s1 == [s EXCEPT !.ikSeed = seed, !.ikPrev = <<>>,
                        !.ikRaw = q[JNT_WRIST_ROLL]]
    IN  IF outcome.errno = "ESUCCESS"
        THEN
          LET solution == [q EXCEPT ![JNT_WRIST_ROLL] =
                              ClosestRoll(s.m_measured_js_pid[JNT_WRIST_ROLL],
                                          q[JNT_WRIST_ROLL])]
              s2 == [s1 EXCEPT !.jointSet = solution,
                               !.ikResult = "ESUCCESS",
                               !.Goal = solution]
              roll == IF arrived \/ result = "FINAL_STATE_REACHED"
                      THEN s2.Goal[JNT_WRIST_ROLL]
                      ELSE s2.JointSet[JNT_WRIST_ROLL]
              s3 == Evaluate(s2, result, roll,
                             IF result = "FINAL_STATE_REACHED"
                             THEN s2.GoalVelocity[JNT_WRIST_ROLL]
                             ELSE rollVelocity)
          IN  SetPositionJointLocal(s3, s3.JointSet)
        ELSE SetPositionJointLocal(
                 Called([s1 EXCEPT !.jointSet = q, !.ikResult = "EFAILURE",
                                   !.Goal = seed, !.JointSet = seed],
                        "SendWarning"), seed)

\* mtsIntuitiveResearchKitMTM::ControlEffortOrientationLocked.  The goal pose
\* (measured translation, locked rotation) only feeds the solver, whose
\* outcome is an input; so are the generator's result and whether its
\* trajectory point is already the goal.
ControlEffortOrientationLocked(s, outcome, result, arrived, rollVelocity) ==
    LET seed == s.mEffortOrientationJoint
        q == ManipulatorInverseKinematics(seed, outcome)
        s1 == [s EXCEPT !.ikSeed = seed, !.ikPrev = <<>>,
                        !.ikRaw = q[JNT_WRIST_ROLL]]
    IN  IF outcome.errno = "ESUCCESS"
        THEN
          LET solution == [q EXCEPT ![JNT_WRIST_ROLL] =
                              ClosestRoll(s.m_measured_js_pid[JNT_WRIST_ROLL],
                                          q[JNT_WRIST_ROLL])]
              s2 == [s1 EXCEPT !.jointSet = solution,
                               !.ikResult = "ESUCCESS",
                               !.Goal = solution]
              roll == IF arrived \/ result = "FINAL_STATE_REACHED"
                      THEN s2.Goal[JNT_WRIST_ROLL]
                      ELSE s2.JointSet[JNT_WRIST_ROLL]
              s3 == Evaluate(s2, result, roll,
                             IF result = "FINAL_STATE_REACHED"
                             THEN s2.GoalVelocity[JNT_WRIST_ROLL]
                             ELSE rollVelocity)
          IN  SetPositionJointLocal(s3, s3.JointSet)
        ELSE Called([s1 EXCEPT !.jointSet = q, !.ikResult = "EFAILURE"],
                    "SendWarning")

\* The locked-orientation solve applied to a measured roll and a solver
\* outcome, the trajectory arriving at once.
SolveOrientationLocked ==
    \E measured \in ReferenceMeasuredSet, outcome \in SolverOutcomes :
        LET s == [Begin("ControlEffortOrientationLocked") EXCEPT
                      !.m_measured_js_pid = measured]
        IN  Commit(ControlEffortOrientationLocked(
                       s, outcome, "FINAL_STATE_REACHED", TRUE, 0))

\* The arm as constructed, a real one with relative encoders.
InitOperational == Init /\ ~ m_simulated /\ ~ mAllEncodersBiased

NextKinematics ==
    \/ ConfigureKinematicType
    \/ SolveInverseKinematics
    \/ SolveOrientationLocked

SpecKinematics == InitOperational /\ [][NextKinematics]_vars

\* Commands of the effort mode, from the external caller.
LockOrientationCommand ==
    \E orientation \in Orientations :
        Commit(LockOrientation(Begin("LockOrientation"), orientation))

UnlockOrientationCommand ==
    Commit(UnlockOrientation(Begin("UnlockOrientation")))

\* The base class calls the virtual SetControlEffortActiveJoints when the
\* effort mode is entered.
SetControlEffortActiveJointsCall ==
    Commit(SetControlEffortActiveJoints(Begin("SetControlEffortActiveJoints")))

\* A cycle in effort mode: the joints are sampled, and with the orientation
\* locked the base class runs ControlEffortOrientationLocked.
ControlEffortCycle ==
    \E measured \in EffortMeasuredSet, velocity \in EffortVelocities :
        LET s == [Begin("ControlEffort") EXCEPT
                      !.m_measured_js_pid = measured,
                      !.m_measured_js_velocity = SetAll(velocity),
                      !.m_setpoint_js_pid = PID.setpoint]
        IN  IF m_effort_orientation_locked
            THEN \E outcome \in SolverOutcomes, result \in Results,
                    arrived \in BOOLEAN :
                     Commit(ControlEffortOrientationLocked(
                                [s EXCEPT !.lastCallback =
                                              "ControlEffortOrientationLocked"],
                                outcome, result, arrived, 0))
            ELSE Commit(s)

NextEffort ==
    \/ LockOrientationCommand
    \/ UnlockOrientationCommand
    \/ SetControlEffortActiveJointsCall
    \/ ControlEffortCycle

SpecEffort == InitOperational /\ [][NextEffort]_vars

---------------------------------------------------------------------------
\* Claims about the kinematics and the effort control.

\* The roll the last solve took as reference: the measured kinematic roll in
\* InverseKinematics, the measured PID roll in the locked-orientation loop.
ReferenceRoll ==
    IF lastCallback = "ControlEffortOrientationLocked"
    THEN m_measured_js_pid[JNT_WRIST_ROLL]
    ELSE m_measured_js_kin[JNT_WRIST_ROLL]

\* C16.  After a successful InverseKinematics or locked-orientation solve,
\* the roll handed back differs from the solver's roll by a whole number of
\* turns of 360 degrees and is at most 180 degrees from the reference roll;
\* in the locked-orientation loop it is the roll of the new trajectory goal.
C16_RollClosestToReference ==
    ( /\ lastCallback \in {"InverseKinematics",
                           "ControlEffortOrientationLocked"}
      /\ ikResult = "ESUCCESS" )
    => /\ (jointSet[JNT_WRIST_ROLL] - ikRaw) % 360 = 0
       /\ Abs(ReferenceRoll - jointSet[JNT_WRIST_ROLL]) <= 180
       /\ lastCallback = "ControlEffortOrientationLocked" =>
              Goal[JNT_WRIST_ROLL] = jointSet[JNT_WRIST_ROLL]

C16_Witness ==
    /\ lastCallback = "InverseKinematics"
    /\ ikResult = "ESUCCESS"
    /\ m_measured_js_kin[JNT_WRIST_ROLL] = 540
    /\ ikRaw = 190
    /\ jointSet[JNT_WRIST_ROLL] = 550

\* C17 as claimed.  When two consecutive calls of InverseKinematics succeed
\* and the solver's rolls of the two differ by less than 180 degrees, the
\* rolls handed back by the two differ by less than 180 degrees.
C17_RollTurnContinuity ==
    ( /\ lastCallback = "InverseKinematics"
      /\ ikResult = "ESUCCESS"
      /\ ikPrev # <<>>
      /\ Abs(ikRaw - ikPrev[1]) < 180 )
    => Abs(jointSet[JNT_WRIST_ROLL] - ikPrev[2]) < 180

\* C18 as claimed.  A failing InverseKinematics returns EFAILURE, leaves the
\* caller's vector equal to the seed passed in, in either mode, and applies
\* no roll correction.
C18_FailureLeavesSeed ==
    (lastCallback = "InverseKinematics" /\ ikResult = "EFAILURE")
    => jointSet = ikSeed

\* C19.  Once a torque-mode mask has been sent to the PID, the last one sent
\* matches the lock flag: joints 0..2 in torque mode and joints 3..6 not,
\* with the orientation locked; all seven joints in torque mode, with the
\* orientation unlocked.  LockOrientation with the orientation locked and
\* UnlockOrientation with it unlocked send no mask.
C19_TorqueModeFollowsLock ==
    /\ [] ( PID.TorqueMode # <<>> =>
              PID.TorqueMode =
                  IF m_effort_orientation_locked
                  THEN [j \in Joints |-> j \in {0, 1, 2}]
                  ELSE [j \in Joints |-> TRUE] )
    /\ [][ ( \/ lastCallback' = "LockOrientation"
                  /\ m_effort_orientation_locked
             \/ lastCallback' = "UnlockOrientation"
                  /\ ~ m_effort_orientation_locked )
           => /\ PID' = PID
              /\ m_effort_orientation_locked' = m_effort_orientation_locked
              /\ \A i \in 1 .. Len(calls') :
                     calls'[i] # "PID.EnableTorqueMode" ]_vars

C19_Witness ==
    /\ lastCallback = "LockOrientation"
    /\ calls = <<>>
    /\ m_effort_orientation_locked
    /\ PID.TorqueMode = [j \in Joints |-> j \in {0, 1, 2}]

\* C20 as claimed.  After every LockOrientation call the stored joint
\* reference mEffortOrientationJoint is the joint position last commanded to
\* the PID.
C20_SeedIsLastCommanded ==
    lastCallback = "LockOrientation" => mEffortOrientationJoint = PID.setpoint

\* C21.  A LockOrientation call made with the orientation unlocked sets the
\* lock flag, copies the measured joint position and velocity into JointSet
\* and JointVelocitySet and reconfigures the trajectory generator
\* (Reflexxes.Set); a call made with the orientation locked leaves JointSet,
\* JointVelocitySet, the goal and the PID alone and does not reconfigure the
\* generator.  Either call stores the base-relative orientation and the
\* measured joint position as the reference.
C21_LockIsEdgeTriggered ==
    [][ lastCallback' = "LockOrientation" =>
          /\ m_effort_orientation_locked'
          /\ mEffortOrientationJoint' = m_measured_js_pid
          /\ \E orientation \in Orientations :
                 mEffortOrientation' = ApplyInverseTo(orientation)
          /\ ~ m_effort_orientation_locked =>
                 /\ JointSet' = m_measured_js_pid
                 /\ JointVelocitySet' = m_measured_js_velocity
                 /\ \E i \in 1 .. Len(calls') : calls'[i] = "Reflexxes.Set"
          /\ m_effort_orientation_locked =>
                 /\ JointSet' = JointSet
                 /\ JointVelocitySet' = JointVelocitySet
                 /\ Goal' = Goal
                 /\ PID' = PID
                 /\ calls' = <<>> ]_vars

\* The snapshot is taken again by a lock that follows an unlock: the
\* locked-orientation loop has run before this lock.
C21_Witness ==
    /\ lastCallback = "LockOrientation"
    /\ Has("Reflexxes.Set")
    /\ ikResult = "ESUCCESS"
    /\ JointSet = m_measured_js_pid
    /\ JointSet[JNT_WRIST_ROLL] = 200
    /\ JointVelocitySet = SetAll(5)
    /\ Goal # JointSet

\* C22.  Every cycle of the locked-orientation loop seeds the solver with the
\* stored reference and leaves the reference and the locked orientation
\* alone.  A cycle whose solve fails leaves the PID setpoint, the trajectory
\* goal, JointSet and JointVelocitySet unchanged, and its only outward call
\* is one warning: no error, no change of the desired or current state.  A
\* cycle whose solve succeeds makes the solution the trajectory goal and
\* commands the trajectory point.
C22_FailedSolveSkipsUpdate ==
    [][ lastCallback' = "ControlEffortOrientationLocked" =>
          /\ ikSeed' = mEffortOrientationJoint
          /\ mEffortOrientationJoint' = mEffortOrientationJoint
          /\ mEffortOrientation' = mEffortOrientation
          /\ ikResult' \in {"ESUCCESS", "EFAILURE"}
          /\ ikResult' = "EFAILURE" =>
                 /\ PID' = PID
                 /\ Goal' = Goal
                 /\ JointSet' = JointSet
                 /\ JointVelocitySet' = JointVelocitySet
                 /\ calls' = << "SendWarning" >>
                 /\ desiredState' = desiredState
                 /\ mArmState' = mArmState
          /\ ikResult' = "ESUCCESS" =>
                 /\ Goal' = jointSet'
                 /\ PID'.setpoint = JointSet'
                 /\ \E i \in 1 .. Len(calls') :
                        calls'[i] = "SetPositionJointLocal"
                 /\ \A i \in 1 .. Len(calls') :
                        calls'[i] \notin {"SendWarning", "SendError"} ]_vars

\* A failed solve after a successful one: the goal and the commanded position
\* of the earlier cycle are still there, and differ from the seed.
C22_Witness ==
    /\ lastCallback = "ControlEffortOrientationLocked"
    /\ ikResult = "EFAILURE"
    /\ calls = << "SendWarning" >>
    /\ Goal[JNT_WRIST_ROLL] # 0
    /\ PID.setpoint = JointSet
    /\ PID.setpoint # ikSeed
    /\ Goal # ikSeed

---------------------------------------------------------------------------
\* Platform preload.  Efforts are kept in fortieths, so that the gains 0.4
\* and 0.05 and the cap 0.1 of the code, and half angle units, are integers.

PreloadPositionGain == 16              \* 0.4 per angle unit
PreloadVelocityGain == 2               \* 0.05 per angle unit and second
PreloadEffortLimit == 4                \* 0.1
q3MaxIncrement == cmnPI \div 20        \* cmnPI * 0.05

\* What the loop samples and hands in: measured positions of the platform,
\* wrist pitch and wrist yaw joints, the platform's measured velocity, and
\* the previous contents of the two vectors.
PreloadPlatforms == {-100000000, -45, 0, 200, 100000000}
PreloadPitches == {0, 60, 90, 180}
PreloadYaws == {-100000000, -1, 0, 18}
PreloadVelocities == {-100000000, -5, 0, 1, 100000000}
StaleEfforts == {9}
WrenchTypes == {"WRENCH_UNDEFINED", "WRENCH_SPATIAL", "WRENCH_BODY"}

Clamp(x, lower, upper) ==
    IF x > upper THEN upper ELSE IF x < lower THEN lower ELSE x

ControlEffortCartesianPreload_Uncapped(s) ==
    IF s.mWrenchType = "WRENCH_SPATIAL"
    THEN [s EXCEPT !.effortPreload = SetAll(0),
                   !.wrenchPreload = [i \in 0 .. 5 |-> 0]]
    ELSE
      LET q == s.m_measured_js_kin
          twiceIncrement == Clamp(q[5] * TwiceCos(q[4]),
                                  -2 * q3MaxIncrement, 2 * q3MaxIncrement)
          twiceGoal == Clamp(2 * q[3] + twiceIncrement, 2 * q3Min, 2 * q3Max)
          effort == - (PreloadPositionGain \div 2) * (2 * q[3] - twiceGoal)
                    - PreloadVelocityGain * s.m_measured_js_kin_velocity[3]
      IN  [s EXCEPT !.effortPreload = [SetAll(0) EXCEPT ![3] = effort],
                    !.wrenchPreload = [i \in 0 .. 5 |-> 0]]

\* mtsIntuitiveResearchKitMTM::ControlEffortCartesianPreload(effortPreload,
\* wrenchPreload).  twiceIncrement and twiceGoal are q3Increment and q3Goal
\* in half angle units.
ControlEffortCartesianPreload(s) ==
    IF s.mWrenchType = "WRENCH_SPATIAL"
    THEN [s EXCEPT !.effortPreload = SetAll(0),
                   !.wrenchPreload = [i \in 0 .. 5 |-> 0]]
    ELSE
      LET q == s.m_measured_js_kin
          twiceIncrement == Clamp(q[5] * TwiceCos(q[4]),
                                  -2 * q3MaxIncrement, 2 * q3MaxIncrement)
          twiceGoal == Clamp(2 * q[3] + twiceIncrement, 2 * q3Min, 2 * q3Max)
          effort == - (PreloadPositionGain \div 2) * (2 * q[3] - twiceGoal)
                    - PreloadVelocityGain * s.m_measured_js_kin_velocity[3]
          capped == Clamp(effort, -PreloadEffortLimit, PreloadEffortLimit)
      IN  [s EXCEPT !.effortPreload = [SetAll(0) EXCEPT ![3] = capped],
                    !.wrenchPreload = [i \in 0 .. 5 |-> 0]]

\* A cartesian effort command of the arm selects the wrench type.
SetWrenchType ==
    \E type \in WrenchTypes \ {mWrenchType} :
        Commit([Begin("SetWrenchType") EXCEPT !.mWrenchType = type])

\* The cartesian effort loop of the arm asks for the preload of this cycle.
ControlEffortCartesianPreloadCall ==
    \E q3 \in PreloadPlatforms, q4 \in PreloadPitches, q5 \in PreloadYaws,
       velocity \in PreloadVelocities, stale \in StaleEfforts :
        LET s == [Begin("ControlEffortCartesianPreload") EXCEPT
                      !.m_measured_js_kin =
                          [SetAll(0) EXCEPT ![3] = q3, ![4] = q4, ![5] = q5],
                      !.m_measured_js_kin_velocity =
                          [SetAll(0) EXCEPT ![3] = velocity],
                      !.effortPreload = SetAll(stale),
                      !.wrenchPreload = [i \in 0 .. 5 |-> stale]]
        IN  Commit(ControlEffortCartesianPreload(s))

NextPreload ==
    \/ SetWrenchType
    \/ ControlEffortCartesianPreloadCall

SpecPreload == InitOperational /\ [][NextPreload]_vars

\* The uncapped effort of the last preload computation, in fortieths: the
\* proportional-derivative term of the code recomputed from the state.
PreloadDemand ==
    LET q == m_measured_js_kin
        twiceGoal == Clamp(2 * q[3] + Clamp(q[5] * TwiceCos(q[4]),
                                            -2 * q3MaxIncrement,
                                            2 * q3MaxIncrement),
                           2 * q3Min, 2 * q3Max)
    IN  - (PreloadPositionGain \div 2) * (2 * q[3] - twiceGoal)
        - PreloadVelocityGain * m_measured_js_kin_velocity[3]

\* C23.  After every call of ControlEffortCartesianPreload the platform
\* component (index 3) of the effort vector is between -0.1 and 0.1, every
\* other component is 0 and the wrench preload is all zero, whatever the
\* measured positions and velocities and the previous contents of the two
\* vectors; with the spatial wrench type the effort vector is all zero.
C23_PreloadBound ==
    lastCallback = "ControlEffortCartesianPreload" =>
        /\ effortPreload[3] >= -PreloadEffortLimit
        /\ effortPreload[3] <= PreloadEffortLimit
        /\ \A j \in Joints \ {3} : effortPreload[j] = 0
        /\ \A i \in 0 .. 5 : wrenchPreload[i] = 0
        /\ mWrenchType = "WRENCH_SPATIAL" => effortPreload[3] = 0

\* The cap acts: a demand far beyond the bound, on vectors that held
\* something else before the call.
C23_Witness ==
    /\ lastCallback = "ControlEffortCartesianPreload"
    /\ mWrenchType = "WRENCH_BODY"
    /\ m_measured_js_kin[3] = 100000000
    /\ m_measured_js_kin_velocity[3] = 100000000
    /\ PreloadDemand < -100000000
    /\ effortPreload[3] = -PreloadEffortLimit

---------------------------------------------------------------------------
\* Gripper feedback.

MaxGripperCycles == 6

\* A cycle of the component in a state that has no run callback of its own:
\* the data of the cycle is read, the joints staying where they are.
GripperCycle ==
    /\ cycles < MaxGripperCycles
    /\ \E dt \in RehomingTimeSteps, analog \in AnalogInputs :
           Commit(GetRobotData(Begin("GetRobotData"), dt, m_measured_js_pid,
                               analog))

InitGripper == Init /\ ~ mAllEncodersBiased
NextGripper == GripperCycle
SpecGripper == InitGripper /\ [][NextGripper]_vars

\* The GripperClosed events sent so far, in order.
ClosedEvents == SelectSeq(gripperEvents, LAMBDA e : e.event # "GripperPinch")

\* The samples and the events of the example, positions in tenths.
ExampleSamples == << 5, 5, -1, -1, 6 >>
ExampleEvents ==
    << [sample |-> 3, event |-> "GripperClosed(true)"],
       [sample |-> 3, event |-> "GripperPinch"],
       [sample |-> 5, event |-> "GripperClosed(false)"] >>

C24_EventsAlternate ==
    /\ \A i \in 1 .. Len(ClosedEvents) :
           ClosedEvents[i].event = IF i % 2 = 1 THEN "GripperClosed(true)"
                                   ELSE "GripperClosed(false)"
    /\ GripperClosed <=> Len(ClosedEvents) % 2 = 1
    /\ \A i \in 1 .. Len(gripperEvents) :
           /\ gripperEvents[i].event = "GripperPinch" =>
                  /\ i > 1
                  /\ gripperEvents[i - 1] =
                         [sample |-> gripperEvents[i].sample,
                          event |-> "GripperClosed(true)"]
           /\ gripperEvents[i].event = "GripperClosed(true)" =>
                  /\ i < Len(gripperEvents)
                  /\ gripperEvents[i + 1] =
                         [sample |-> gripperEvents[i].sample,
                          event |-> "GripperPinch"]
    /\ ( /\ Len(gripperSamples) >= 5
         /\ SubSeq(gripperSamples, 1, 5) = ExampleSamples ) =>
           /\ Len(gripperEvents) >= 3
           /\ SubSeq(gripperEvents, 1, 3) = ExampleEvents

C24_PinchOnClosingEdge ==
    lastCallback' = "GetRobotData" =>
        LET read == Len(gripperSamples') = Len(gripperSamples) + 1
            position == StateGripper'
            closes == ~ GripperClosed /\ GripperClosed'
            opens == GripperClosed /\ ~ GripperClosed'
            pinches == {i \in 1 .. Len(calls') : calls'[i] = "GripperPinch"}
        IN  /\ closes <=> (read /\ ~ GripperClosed /\ position < 0)
            /\ opens <=> (read /\ GripperClosed /\ position > 0)
            /\ Cardinality(pinches) = IF closes THEN 1 ELSE 0
            /\ closes => calls' = << "GripperClosed(true)", "GripperPinch" >>
            /\ opens => calls' = << "GripperClosed(false)" >>
            /\ (~ closes /\ ~ opens) =>
                   calls' = << >> /\ gripperEvents' = gripperEvents
            /\ (read /\ position = 0) => GripperClosed' = GripperClosed
            /\ ~ read => /\ gripperSamples' = gripperSamples
                         /\ StateGripper' = StateGripper

\* C24.  The gripper starts open.  In every cycle GripperPinch is sent once
\* if the closed flag goes from false to true in that cycle, which happens
\* exactly when a position below 0 is read while the flag is false, and not
\* at all otherwise; the flag goes back to false exactly when a position
\* above 0 is read while it is true; a position of 0 leaves the flag alone.
\* The GripperClosed events sent alternate between true and false, the first
\* being true, and each GripperClosed(true) is followed at once by the pinch
\* of the same sample.  The samples 0.5, 0.5, -0.1, -0.1, 0.6 give
\* GripperClosed(true) and GripperPinch at the third sample and
\* GripperClosed(false) at the fifth, and no other event.
C24_GripperEdgeDetection ==
    [] C24_EventsAlternate /\ [][C24_PinchOnClosingEdge]_vars

\* The example of the claim has been read.
C24_Witness ==
    /\ lastCallback = "GetRobotData"
    /\ gripperSamples = ExampleSamples
    /\ gripperEvents = ExampleEvents
    /\ calls = << "GripperClosed(false)" >>
    /\ ~ GripperClosed

---------------------------------------------------------------------------
\* Claims about leaving the calibration and about its termination.

\* The tolerance EnterCalibratingRoll gives the roll: 1.5 * maxRollRange.
WidenedRollTolerance == (3 * maxRollRange) \div 2

\* The PID checks the joint limits and the roll's tracking error tolerance
\* is not the one of the calibration.
SafetySettingsRestored ==
    /\ PID.CheckPositionLimit
    /\ PID.TrackingErrorTolerance[JNT_WRIST_ROLL] # WidenedRollTolerance

\* The run callback of CALIBRATING_ROLL or HOMING_ROLL has just failed and
\* requested the fallback state.
CalibrationFailed ==
    /\ lastCallback \in {"RunCalibratingRoll", "RunHomingRoll"}
    /\ Has("SendError")
    /\ Has("SetDesiredState")
    /\ desiredState = mFallbackState

\* C25.  Whenever the arm is in READY, and whenever it has been moved to the
\* fallback state after a failure in CALIBRATING_ROLL or HOMING_ROLL, the
\* PID checks the joint limits and the roll's tracking error tolerance is
\* not the widened value of the calibration, 1.5 * 7 * pi.
C25_SafetySettingsRestored ==
    /\ [] (mArmState = "READY" => SafetySettingsRestored)
    /\ [][ ( /\ CalibrationFailed
             /\ lastCallback' = "RunAllStates"
             /\ mArmState' = mFallbackState ) =>
           SafetySettingsRestored' ]_vars

---------------------------------------------------------------------------
\* Termination of the calibration.  The cycles below are the cycles of Spec
\* on a clock that is kept relative: the callbacks compare tics only through
\* their differences to mHomingTimer, so after a cycle the tic is moved to
\* MaxTime and the stored tics are moved with it.  A stored tic that falls
\* to 1 is older than every delay of the code; 0 stays "not set".  Of the
\* count of cycles only the parity is kept, and the gripper samples are
\* forgotten.

LiveTimeSteps == {1000, 2000}          \* tic increments between cycles, ms

Rebased(tic, shift) ==
    IF tic = 0 THEN 0
    ELSE IF tic - shift < 1 THEN 1 ELSE tic - shift

Rebase(s) ==
    LET shift == s.currentTime - MaxTime
    IN  [s EXCEPT !.currentTime = MaxTime,
                  !.mHomingTimer = Rebased(@, shift),
                  !.EndTime = Rebased(@, shift),
                  !.tServoOff = Rebased(@, shift),
                  !.tReset = Rebased(@, shift),
                  !.cycles = @ % 2,
                  !.gripperSamples = << >>]

LiveCalibratingRoll ==
    /\ mArmState = "CALIBRATING_ROLL"
    /\ desiredState # mFallbackState
    /\ \E dt \in LiveTimeSteps, measured \in MeasuredSet, result \in Results,
          duration \in Durations :
           LET s == GetRobotData(Begin("RunCalibratingRoll"), dt, measured,
                                 GripperAtRest)
           IN  \E roll \in EvaluateRolls(s, result),
                  rollVelocity \in EvaluateVelocities(s, result) :
                   Commit(Rebase(RunCalibratingRoll(s, result, roll,
                                                    rollVelocity, duration)))

LiveHomingRoll ==
    /\ mArmState = "HOMING_ROLL"
    /\ desiredState # mFallbackState
    /\ \E dt \in LiveTimeSteps, measured \in MeasuredSet, result \in Results,
          duration \in Durations :
           LET s == GetRobotData(Begin("RunHomingRoll"), dt, measured,
                                 GripperAtRest)
           IN  \E roll \in EvaluateRolls(s, result),
                  rollVelocity \in EvaluateVelocities(s, result) :
                   Commit(Rebase(RunHomingRoll(s, result, roll, rollVelocity,
                                               duration)))

LiveResettingRollEncoder ==
    /\ mArmState = "RESETTING_ROLL_ENCODER"
    /\ desiredState # mFallbackState
    /\ \E dt \in LiveTimeSteps, measured \in MeasuredSet :
           Commit(Rebase(RunResettingRollEncoder(
               GetRobotData(Begin("RunResettingRollEncoder"), dt, measured,
                            GripperAtRest))))

NextLive ==
    \/ SetDesiredStateCommand
    \/ RunAllStates
    \/ HomeArm(1)
    \/ ArmHomed
    \/ LiveCalibratingRoll
    \/ RollCalibrated
    \/ LiveHomingRoll
    \/ LiveResettingRollEncoder
    \/ RollEncoderReset

\* A cycle runs the run callback of the current state: the steps of
\* LiveCalibratingRoll, LiveHomingRoll and LiveResettingRollEncoder are the
\* steps of NextLive that change the parity of cycles, and one of them is
\* possible exactly when the state has a run callback and no fallback is
\* pending.
CycleRuns ==
    /\ mArmState \in {"CALIBRATING_ROLL", "HOMING_ROLL",
                      "RESETTING_ROLL_ENCODER"}
    /\ desiredState # mFallbackState
    /\ cycles' = 1 - cycles

\* The component's periodic Run executes the callback of the current state
\* in every cycle, and cycles never stop coming.
SpecLive ==
    /\ Init
    /\ [][NextLive]_vars
    /\ WF_cycles(CycleRuns)
    /\ WF_vars(ArmHomed)
    /\ WF_vars(RollCalibrated)
    /\ WF_vars(RollEncoderReset)

\* C26.  Whenever the arm is in CALIBRATING_ROLL with READY as desired
\* state, it later is in READY or has the fallback state as desired state,
\* whatever statuses the trajectory generator reports and whatever positions
\* are measured, provided cycles keep running and the tic keeps advancing.
C26_CalibrationTerminates ==
    (mArmState = "CALIBRATING_ROLL" /\ desiredState = "READY")
        ~> (mArmState = "READY" \/ desiredState = mFallbackState)

\* The same when the trajectory generator never reports an error status.
TerminatesWithoutErrorStatus ==
    (<> (trajectoryResult = "ERROR")) \/ C26_CalibrationTerminates

\* The same when, in addition, the arm does not stay in HOMING_ROLL for ever.
TerminatesOutsideHomingRoll ==
    \/ <> (trajectoryResult = "ERROR")
    \/ <>[] (mArmState = "HOMING_ROLL")
    \/ C26_CalibrationTerminates

====
